---- MODULE Spec2Model ----
(***************************************************************************)
(* Model of backup_script.py: BackupManager.run_backup, backup_server,     *)
(* copy_backup_to_version, cleanup_old_backups, and the directory          *)
(* operation SSHBackup.download_directory with the IncrementalBackup hash  *)
(* index it drives.  The local file system is the set of directories under *)
(* backup_dir/<server>/ with the files each of them holds.                 *)
(* Spec follows run_backup campaigns with download_directory as one step;  *)
(* SpecDD follows one server's sessions through download_directory         *)
(* statement by statement; SpecPB follows one ProgressBar.                 *)
(***************************************************************************)
EXTENDS Integers, Sequences, FiniteSets, TLC

\* ---------------------------------------------------------------- bounds
MaxTime == 2        \* distinct clock readings of strftime('%Y%m%d_%H%M%S')
MaxRuns == 2        \* calls of run_backup
MaxKeep == 2        \* largest configured max_backup_versions
MaxDigest == 1      \* distinct contents (md5 digests) a remote file takes
MaxSessions == 3    \* IncrementalBackup/SSHBackup sessions of one server
MaxChanges == 1     \* changes of remote file contents
MaxContents == 2    \* distinct contents a remote file takes in a session
MaxUpdates == 2     \* ProgressBar.update calls on one bar
MaxClock == 3       \* wall clock range, in units of 50 ms
MaxSize == 2        \* largest file_size passed to update
MaxCount == 2       \* largest file count passed to update
MaxCalls == 2       \* download_directory calls on one SSHBackup
MaxTotal == 2       \* largest remote file count, largest work list
MaxLocal == 2       \* most files under one local path
MaxCopies == 2      \* copy_backup_to_version calls on one target

\* ---------------------------------------------------------- configuration
\* config['servers'] and each server's 'remote_paths'
Servers == <<"s1", "s2">>
ServerSet == {Servers[i] : i \in 1..Len(Servers)}
RemotePaths(s) == IF s = "s1" THEN <<"p1", "p2">> ELSE <<"p2">>

\* The remote files: one file under p1, none under p2.
Files == {"f1"}
RemoteFileList(p) == IF p = "p1" THEN <<"f1">> ELSE <<>>

Digests == 1..MaxDigest
\* a directory's files: file -> digest of the bytes it holds, 0 = no file
Content == [Files -> 0..MaxDigest]
Empty == [f \in Files |-> 0]

\* One server followed through its sessions: two files under p1, none
\* under p2.
DDPaths == <<"p1", "p2">>
DDPathSet == {DDPaths[i] : i \in 1..Len(DDPaths)}
DDFiles == {"a", "b"}
DDFileList(p) == IF p = "p1" THEN <<"a", "b">> ELSE <<>>
DDContent == [DDFiles -> 0..MaxContents]
DDEmpty == [f \in DDFiles |-> 0]

\* "if now - self.last_update < 0.1", in clock units of 50 ms
Throttle == 2

\* ------------------------------------------------------- directory names
CurrentName == [kind |-> "current", ts |-> 0]
HashIndexName == [kind |-> "hash_index", ts |-> 0]
VersionName(t) == [kind |-> "version", ts |-> t]
VersionNames == {VersionName(t) : t \in 1..MaxTime}
Names == {CurrentName, HashIndexName} \cup VersionNames

\* Python compares the names as strings: a timestamp name is fixed-width
\* digits, so timestamps order by time, and a digit sorts before 'c' before 'h'.
NameKey(d) ==
    IF d.kind = "version" THEN d.ts
    ELSE IF d.kind = "current" THEN MaxTime + 1
    ELSE MaxTime + 2
NameLt(a, b) == NameKey(a) < NameKey(b)

\* list.sort(key=lambda x: x.name, reverse=True)
RECURSIVE SortDesc(_)
SortDesc(S) ==
    IF S = {} THEN <<>>
    ELSE LET m == CHOOSE x \in S : \A y \in S : ~NameLt(x, y)
         IN <<m>> \o SortDesc(S \ {m})

\* seq[n:]
SliceFrom(seq, n) ==
    IF n >= Len(seq) THEN <<>> ELSE SubSeq(seq, n + 1, Len(seq))
Range(seq) == {seq[i] : i \in 1..Len(seq)}

VARIABLES
    maxVersions,  \* config['backup_settings']['max_backup_versions']
    now,          \* last clock reading
    dirs,         \* dirs[s]: directories present under backup_dir/s
    tree,         \* tree[s][d]: files of directory d (hash_index: the saved index)
    runPc,        \* run_backup: "idle", "loop", "done", "aborted"
    runs,         \* run_backup calls started
    srv,          \* run_backup's loop position in Servers
    results,      \* backup_server return values of this run, in call order
    runRet,       \* run_backup's return value: "none", "true", "false"
    pc,           \* backup_server's position
    vts,          \* timestamp of version_backup_dir, 0 before it is computed
    success,      \* backup_server's local `success`
    pathIdx,      \* position of the remote_paths loop
    index,        \* IncrementalBackup.hash_index (in memory)
    ret,          \* backup_server's return value: "none", "true", "false"
    connState,    \* "none", "ok", "failed"
    raisedAt,     \* where an exception was raised in this campaign, or "none"
    rbState,      \* rollback: "none", "absent", "removed", "failed"
    log,          \* calls made by this campaign, in order
    preDirs,      \* the version directories there when the campaign started
    preTree,      \* what each of them held
    lastCleanup   \* the last cleanup_old_backups pass

\* one server's session: IncrementalBackup + SSHBackup.download_directory
VARIABLES
    ddRemote,     \* remote file -> digest of its present content
    ddChanges,    \* changes of remote content so far
    ddIndex,      \* IncrementalBackup.hash_index
    ddPersisted,  \* what the index file loads as
    ddCur,        \* local file under `current` -> digest of its content, 0 none
    ddSessions,   \* sessions started
    ddPc,         \* position: "off", "ready", "bulk", "build", "list",
                  \*   "scan", "copy", "save", "ret"
    ddPath,       \* position in the server's remote_paths
    ddMode,       \* branch taken by this call: "none", "full", "incremental"
    ddStart,      \* hash_index when this call started
    ddList,       \* remote_files
    ddEnumOk,     \* whether the enumeration of remote_files worked
    ddPos,        \* position of the scan in remote_files
    ddObs,        \* digest read for each file by this call, 0 none
    ddWork,       \* files_to_backup
    ddAttempts,   \* passes of the copy loop: file and outcome
    ddSaved,      \* save_hash_index calls of this call
    ddRet,        \* return value of this call: "none", "true", "false"
    ddLastCall,   \* the last should_backup_file call
    ddPrev,       \* per path, the last finished call: its mode, its return
                  \*   value, whether it enumerated and read every digest
    ddChanged,    \* per path: remote content changed since the digests were
                  \*   last read for it (last), since the time before (prev)
    ddLoadedSame  \* this session loaded the index the previous one ended with

\* one ProgressBar
VARIABLES
    pbState,      \* "none", "open", "finished"
    pbClock,      \* time.time()
    pbStartTime,  \* start_time
    pbLastUpdate, \* last_update
    pbCurrent,    \* current
    pbTransferred,\* transferred_size
    pbCalls,      \* the update calls made: current, file_size, rendered
    pbSummary     \* what finish() printed: transferred_size, or -1

\* one SSHBackup object with the threads that work on it: the main thread in
\* download_directory and the threads running monitor_progress
VARIABLES
    ssh

\* one server directory on which copy_backup_to_version is applied
VARIABLES
    cv

campaignVars == <<maxVersions, now, dirs, tree, runPc, runs, srv, results, runRet,
                  pc, vts, success, pathIdx, index, ret, connState, raisedAt,
                  rbState, log, preDirs, preTree, lastCleanup>>
ddVars == <<ddRemote, ddChanges, ddIndex, ddPersisted, ddCur, ddSessions, ddPc,
            ddPath, ddMode, ddStart, ddList, ddEnumOk, ddPos, ddObs, ddWork,
            ddAttempts, ddSaved, ddRet, ddLastCall, ddPrev, ddChanged,
            ddLoadedSame>>
pbVars == <<pbState, pbClock, pbStartTime, pbLastUpdate, pbCurrent,
            pbTransferred, pbCalls, pbSummary>>
fmVars == <<ssh>>
cvVars == <<cv>>
vars == <<campaignVars, ddVars, pbVars, fmVars, cvVars>>

fsVars == <<dirs, tree>>
runVars == <<runPc, runs, srv, results, runRet>>
histVars == <<preDirs, preTree, lastCleanup>>

Cur == Servers[srv]
Event(e, p, ok) == [ev |-> e, path |-> p, ok |-> ok]
NoCleanup == [ran |-> FALSE, server |-> "", n |-> 0, listed |-> <<>>,
              before |-> {}, after |-> {}, failed |-> {}]

CampaignInit ==
    /\ maxVersions \in 0..MaxKeep
    /\ now = 1
    /\ dirs = [s \in ServerSet |-> {}]
    /\ tree = [s \in ServerSet |-> [d \in Names |-> Empty]]
    /\ runPc = "idle"
    /\ runs = 0
    /\ srv = 1
    /\ results = <<>>
    /\ runRet = "none"
    /\ pc = "idle"
    /\ vts = 0
    /\ success = TRUE
    /\ pathIdx = 1
    /\ index = Empty
    /\ ret = "none"
    /\ connState = "none"
    /\ raisedAt = "none"
    /\ rbState = "none"
    /\ log = <<>>
    /\ preDirs = {}
    /\ preTree = [d \in VersionNames |-> Empty]
    /\ lastCleanup = NoCleanup

\* no session of the followed server has started
DDOff ==
    /\ ddRemote = [f \in DDFiles |-> 1]
    /\ ddChanges = 0
    /\ ddIndex = DDEmpty
    /\ ddPersisted = DDEmpty
    /\ ddCur = DDEmpty
    /\ ddSessions = 0
    /\ ddPc = "off"
    /\ ddPath = 1
    /\ ddMode = "none"
    /\ ddStart = DDEmpty
    /\ ddList = <<>>
    /\ ddEnumOk = TRUE
    /\ ddPos = 1
    /\ ddObs = DDEmpty
    /\ ddWork = <<>>
    /\ ddAttempts = <<>>
    /\ ddSaved = 0
    /\ ddRet = "none"
    /\ ddLastCall = <<>>
    /\ ddPrev = [p \in DDPathSet |-> [mode |-> "none", ret |-> "none", clean |-> FALSE]]
    /\ ddChanged = [p \in DDPathSet |-> [last |-> FALSE, prev |-> FALSE]]
    /\ ddLoadedSame = FALSE

\* no ProgressBar has been constructed; time.time() is far above 0.1
PBOff ==
    /\ pbState = "none"
    /\ pbClock = Throttle
    /\ pbStartTime = 0
    /\ pbLastUpdate = 0
    /\ pbCurrent = 0
    /\ pbTransferred = 0
    /\ pbCalls = <<>>
    /\ pbSummary = <<>>

\* SSHBackup.__init__ (lines 313-322): no call yet, no bar, no thread.
\*   calls    download_directory calls started
\*   mode     branch of the running call: "none", "full", "incremental"
\*   pc       position of the main thread
\*   progress_bar   0 for None, else the call that made the bar
\*   bars     per call, the ProgressBar it made: total and current
\*   local    per call, the files under its local_path
\*   threads  per call, its monitor thread: position and the count it read
\*   cleared  per call: is_downloading was cleared after its bulk copy
\*   late     per call: updates its monitor thread made after that
FMOff ==
    ssh = [calls |-> 0, mode |-> "none", pc |-> "idle",
           is_downloading |-> FALSE, total_files |-> 0, copied_files |-> 0,
           progress_bar |-> 0,
           bars |-> [k \in 1..MaxCalls |-> [total |-> 0, current |-> 0]],
           local |-> [k \in 1..MaxCalls |-> 0],
           threads |-> [k \in 1..MaxCalls |-> [pc |-> "none", n |-> 0]],
           cleared |-> [k \in 1..MaxCalls |-> FALSE],
           late |-> [k \in 1..MaxCalls |-> 0]]

\* no directory is given to copy_backup_to_version on its own
CVOff == cv = [dirs |-> {}, tree |-> [d \in Names |-> Empty],
               target |-> CurrentName, shots |-> <<>>]

Init == CampaignInit /\ DDOff /\ PBOff /\ FMOff /\ CVOff

\* ------------------------------------------------------------ file system
\* Path.mkdir(parents=True, exist_ok=True)
Mkdir(D, d) == D \cup {d}
\* shutil.rmtree(d): the directory and all it holds
RmtreeDirs(D, d) == D \ {d}
RmtreeTree(T, d) == [T EXCEPT ![d] = Empty]
\* what an rmtree that raises can leave of a directory's files
Remnants(c) == {x \in Content : \A f \in Files : x[f] \in {0, c[f]}}

\* ------------------------------------------------- IncrementalBackup
\* (mutant: one file without an entry makes it a first backup)
IsFirstBackupSome(idx) == \E f \in DOMAIN idx : idx[f] = 0
\* is_first_backup: len(self.hash_index) == 0
IsFirstBackup(idx) == \A f \in DOMAIN idx : idx[f] = 0

\* (mutant: no digest is ever found in the index)
PreviousHashNone(idx, f) == 0
\* should_backup_file: previous_hash = self.hash_index.get(file_path, "")
PreviousHash(idx, f) == idx[f]

\* (mutant: an unobtainable digest is compared and recorded like any other)
ShouldBackupFileClosed(idx, f, h) ==
    IF h # PreviousHash(idx, f) THEN [include |-> TRUE, index |-> [idx EXCEPT ![f] = h]]
    ELSE [include |-> FALSE, index |-> idx]
\* should_backup_file with live digest h (0: get_remote_file_hash returned "")
ShouldBackupFile(idx, f, h) ==
    IF h = 0 THEN [include |-> TRUE, index |-> idx]
    ELSE IF h # PreviousHash(idx, f) THEN [include |-> TRUE, index |-> [idx EXCEPT ![f] = h]]
    ELSE [include |-> FALSE, index |-> idx]

\* the loop "for file_path in remote_files: if should_backup_file(...)":
\* the work list and the index it leaves, for the digests h read per file
RECURSIVE Scan(_, _, _, _)
Scan(files, h, idx, work) ==
    IF files = <<>> THEN [work |-> work, index |-> idx]
    ELSE LET f == Head(files)
             r == ShouldBackupFile(idx, f, h[f])
         IN Scan(Tail(files), h, r.index,
                 IF r.include THEN Append(work, f) ELSE work)

\* (mutant: the full backup records nothing)
BuildHashIndexNone(idx, listed, h) == idx
\* build_hash_index_after_full_backup over the listed files
BuildHashIndex(idx, listed, h) ==
    [f \in DOMAIN idx |-> IF f \in Range(listed) /\ h[f] # 0 THEN h[f] ELSE idx[f]]

\* save_hash_index: the file is written, or open() failed and it is as
\* before, or the write broke off and the file no longer parses (loads as {})
SaveOutcomes(idx, persisted) == {idx, persisted, [f \in DOMAIN idx |-> 0]}

\* files written into a directory: copied[f] = 0 leaves f as it was
Overlay(cur, copied) == [f \in Files |-> IF copied[f] # 0 THEN copied[f] ELSE cur[f]]

\* what a copy of the files in S can leave behind: each file's bytes at the
\* time of its copy, or nothing for a file whose copy did not happen
CopyResults(S, all) ==
    {c \in Content : /\ \A f \in Files \ S : c[f] = 0
                     /\ all => \A f \in S : c[f] # 0}

\* ------------------------------------------- SSHBackup.download_directory
\* One call, as the set of results it can have: the return value, the index
\* in memory, the files under `current`, and the index file.
FullBackup(idx, cur, persisted, p) ==
    LET files == Range(RemoteFileList(p)) IN
    \* scp_client.get(recursive=True) raises: some files may have arrived
    { [ok |-> FALSE, mode |-> "full", index |-> idx, cur |-> Overlay(cur, c),
       persisted |-> persisted, saved |-> FALSE, work |-> <<>>]
         : c \in CopyResults(files, FALSE) }
    \cup
    \* the bulk copy returns; then the index is built and saved
    { [ok |-> TRUE, mode |-> "full", index |-> BuildHashIndex(idx, l, h),
       cur |-> Overlay(cur, c), persisted |-> sv, saved |-> TRUE, work |-> <<>>]
         : <<c, l, h, sv>> \in
             { x \in CopyResults(files, TRUE) \X {RemoteFileList(p), <<>>}
                     \X Content \X Content :
                  x[4] \in SaveOutcomes(BuildHashIndex(idx, x[2], x[3]), persisted) } }

IncrementalBackupOf(idx, cur, persisted, p) ==
    UNION {
      LET s == Scan(l, h, idx, <<>>) IN
      IF s.work = <<>>
      THEN { [ok |-> TRUE, mode |-> "incremental", index |-> s.index, cur |-> cur,
              persisted |-> persisted, saved |-> FALSE, work |-> s.work] }
      ELSE { [ok |-> TRUE, mode |-> "incremental", index |-> s.index,
              cur |-> Overlay(cur, c), persisted |-> sv, saved |-> TRUE,
              work |-> s.work]
               : <<c, sv>> \in CopyResults(Range(s.work), FALSE)
                                 \X SaveOutcomes(s.index, persisted) }
      : <<l, h>> \in {RemoteFileList(p), <<>>} \X Content }

DownloadResults(idx, cur, persisted, p) ==
    \* os.makedirs(local_path) raises
    { [ok |-> FALSE, mode |-> "none", index |-> idx, cur |-> cur,
       persisted |-> persisted, saved |-> FALSE, work |-> <<>>] }
    \cup (IF IsFirstBackup(idx) THEN FullBackup(idx, cur, persisted, p)
          ELSE IncrementalBackupOf(idx, cur, persisted, p))

\* ------------------------------------------------ BackupManager helpers
\* (mutant: the last path's result overwrites the flag)
AggregateLast(succ, ok) == ok
\* "else: success = False" of the remote_paths loop
Aggregate(succ, ok) == IF ok THEN succ ELSE FALSE

\* (mutant: a failed copy clears the flag)
SuccessAfterCopyStrict(succ, copyOk) == succ /\ copyOk
\* the except around copy_backup_to_version only logs: `success` stays
SuccessAfterCopy(succ, copyOk) == succ

\* run_backup's "if self.backup_server(...): success_count += 1"
SuccessCount(res) == Cardinality({i \in 1..Len(res) : res[i].ok})
\* (mutant: one successful server is enough)
RunResultAny(res, total) == SuccessCount(res) > 0
\* run_backup's return value
RunResult(res, total) == SuccessCount(res) = total

\* (mutant: the loop skips an entry)
NextIndexSkip(i) == i + 2
\* the enumerate() loops: the position after position i
NextIndex(i) == i + 1

\* cleanup_old_backups: the directories it lists, sorted, and those it removes
BackupDirs(D) == SortDesc({d \in D : d # CurrentName})
OldBackups(D, n) == SliceFrom(BackupDirs(D), n)

\* (mutant: the failed branch removes nothing)
RollbackResultsKeep(D, T, v) == { [state |-> "removed", dirs |-> D, tree |-> T] }
\* the failed branch of backup_server, "if version_backup_dir.exists():
\* shutil.rmtree(...)" under a bare except: the directory is removed, or
\* rmtree raises and the directory stays with what rmtree left of it
RollbackResults(D, T, v) ==
    IF v \notin D THEN { [state |-> "absent", dirs |-> D, tree |-> T] }
    ELSE { [state |-> "removed", dirs |-> RmtreeDirs(D, v), tree |-> RmtreeTree(T, v)] }
         \cup { [state |-> "failed", dirs |-> D, tree |-> [T EXCEPT ![v] = c]]
                  : c \in Remnants(T[v]) }

\* (mutant: copytree onto the target without the rmtree before it)
CopyToVersionMerging(D, T, v) ==
    { [ok |-> TRUE, dirs |-> Mkdir(D, v),
       tree |-> [T EXCEPT ![v] = Overlay(T[v], T[CurrentName])]] }

\* copy_backup_to_version(current, v): rmtree of the target then copytree.
\* ok: the copy is complete; otherwise the exception is re-raised, after
\* rmtree failed (target untouched) or after copytree broke off (no target,
\* or a target holding part of the files).
CopyToVersion(D, T, v) ==
    { [ok |-> TRUE, dirs |-> Mkdir(RmtreeDirs(D, v), v),
       tree |-> [T EXCEPT ![v] = T[CurrentName]]] }
    \cup (IF v \in D
          THEN { [ok |-> FALSE, dirs |-> D, tree |-> [T EXCEPT ![v] = c]]
                   : c \in Remnants(T[v]) }
          ELSE {})
    \cup { [ok |-> FALSE, dirs |-> RmtreeDirs(D, v), tree |-> RmtreeTree(T, v)] }
    \cup { [ok |-> FALSE, dirs |-> Mkdir(RmtreeDirs(D, v), v),
            tree |-> [T EXCEPT ![v] = c]]
             : c \in Remnants(T[CurrentName]) }

\* ---------------------------------------------------------- run_backup
\* run_backup is called (by main, or by the scheduler's job)
RunBackup ==
    /\ runPc \in {"idle", "done", "aborted"}
    /\ runs < MaxRuns
    /\ runPc' = "loop"
    /\ runs' = runs + 1
    /\ srv' = 1
    /\ results' = <<>>
    /\ runRet' = "none"
    /\ pc' = "idle"
    /\ UNCHANGED <<maxVersions, now, fsVars, vts, success, pathIdx, index, ret,
                   connState, raisedAt, rbState, log, histVars>>
    /\ UNCHANGED <<ddVars, pbVars, fmVars, cvVars>>

\* an exception leaves backup_server: run_backup has no handler, the run ends
Escape(where) ==
    /\ raisedAt' = where
    /\ runPc' = "aborted"
    /\ pc' = "idle"

\* backup_server is entered: `current` is created (lines 541-551)
BeginServer ==
    /\ runPc = "loop" /\ pc = "idle"
    /\ vts' = 0
    /\ success' = TRUE
    /\ pathIdx' = 1
    /\ index' = Empty
    /\ ret' = "none"
    /\ connState' = "none"
    /\ rbState' = "none"
    /\ log' = <<>>
    /\ preDirs' = dirs[Cur] \cap VersionNames
    /\ preTree' = [d \in VersionNames |-> tree[Cur][d]]
    /\ lastCleanup' = NoCleanup
    /\ \/ /\ dirs' = [dirs EXCEPT ![Cur] = Mkdir(@, CurrentName)]
          /\ raisedAt' = "none"
          /\ pc' = "mkver"
          /\ UNCHANGED runPc
       \/ /\ Escape("mkdir_current")
          /\ UNCHANGED dirs
    /\ UNCHANGED <<maxVersions, now, tree, runs, srv, results, runRet>>
    /\ UNCHANGED <<ddVars, pbVars, fmVars, cvVars>>

\* the version directory is named after the clock and created (lines 554-558)
ReserveVersion ==
    /\ runPc = "loop" /\ pc = "mkver"
    /\ \E t \in now..MaxTime :
         /\ now' = t
         /\ vts' = t
         /\ \/ /\ dirs' = [dirs EXCEPT ![Cur] = Mkdir(@, VersionName(t))]
               /\ pc' = "ctor"
               /\ UNCHANGED <<runPc, raisedAt>>
            \/ /\ Escape("mkdir_version")
               /\ UNCHANGED dirs
    /\ UNCHANGED <<maxVersions, tree, runs, srv, results, runRet, success, pathIdx,
                   index, ret, connState, rbState, log, histVars>>
    /\ UNCHANGED <<ddVars, pbVars, fmVars, cvVars>>

\* IncrementalBackup(...) and SSHBackup(...) are constructed (lines 560-564):
\* hash_index is created and the index file loaded, or the mkdir raises
Construct ==
    /\ runPc = "loop" /\ pc = "ctor"
    /\ \/ /\ dirs' = [dirs EXCEPT ![Cur] = Mkdir(@, HashIndexName)]
          /\ index' = tree[Cur][HashIndexName]
          /\ pc' = "connect"
          /\ UNCHANGED <<success, raisedAt>>
       \/ /\ raisedAt' = "ctor"
          /\ success' = FALSE
          /\ pc' = "finish"
          /\ UNCHANGED <<dirs, index>>
    /\ UNCHANGED <<maxVersions, now, tree, runVars, vts, pathIdx, ret, connState,
                   rbState, log, histVars>>
    /\ UNCHANGED <<ddVars, pbVars, fmVars, cvVars>>

\* backup_client.connect() (lines 566-572)
Connect ==
    /\ runPc = "loop" /\ pc = "connect"
    /\ \/ /\ connState' = "ok"
          /\ pc' = "paths"
          /\ UNCHANGED ret
       \/ /\ connState' = "failed"
          /\ ret' = "false"
          /\ pc' = "ret"
    /\ UNCHANGED <<maxVersions, now, fsVars, runVars, vts, success, pathIdx, index,
                   raisedAt, rbState, log, histVars>>
    /\ UNCHANGED <<ddVars, pbVars, fmVars, cvVars>>

\* one pass of the remote_paths loop (lines 575-588)
DownloadDirectory ==
    /\ runPc = "loop" /\ pc = "paths"
    /\ pathIdx <= Len(RemotePaths(Cur))
    /\ LET p == RemotePaths(Cur)[pathIdx] IN
       \E r \in DownloadResults(index, tree[Cur][CurrentName],
                                tree[Cur][HashIndexName], p) :
          /\ index' = r.index
          /\ tree' = [tree EXCEPT ![Cur][CurrentName] = r.cur,
                                  ![Cur][HashIndexName] = r.persisted]
          /\ success' = Aggregate(success, r.ok)
          /\ log' = Append(log, Event("download", p, r.ok))
    /\ pathIdx' = NextIndex(pathIdx)
    /\ UNCHANGED <<maxVersions, now, dirs, runVars, pc, vts, ret, connState,
                   raisedAt, rbState, histVars>>
    /\ UNCHANGED <<ddVars, pbVars, fmVars, cvVars>>

\* a statement of the loop body outside download_directory raises
LoopRaise ==
    /\ runPc = "loop" /\ pc = "paths"
    /\ pathIdx <= Len(RemotePaths(Cur))
    /\ raisedAt' = "loop"
    /\ success' = FALSE
    /\ pc' = "finish"
    /\ UNCHANGED <<maxVersions, now, fsVars, runVars, vts, pathIdx, index, ret,
                   connState, rbState, log, histVars>>
    /\ UNCHANGED <<ddVars, pbVars, fmVars, cvVars>>

\* backup_client.disconnect() after the loop (lines 590-596)
Disconnect ==
    /\ runPc = "loop" /\ pc = "paths"
    /\ pathIdx > Len(RemotePaths(Cur))
    /\ \/ UNCHANGED <<success, raisedAt>>
       \/ /\ raisedAt' = "disconnect"
          /\ success' = FALSE
    /\ pc' = "finish"
    /\ UNCHANGED <<maxVersions, now, fsVars, runVars, vts, pathIdx, index, ret,
                   connState, rbState, log, histVars>>
    /\ UNCHANGED <<ddVars, pbVars, fmVars, cvVars>>

\* "if success:" copy_backup_to_version in its try/except (lines 598-611)
Materialize ==
    /\ runPc = "loop" /\ pc = "finish"
    /\ success
    /\ \E r \in CopyToVersion(dirs[Cur], tree[Cur], VersionName(vts)) :
         /\ dirs' = [dirs EXCEPT ![Cur] = r.dirs]
         /\ tree' = [tree EXCEPT ![Cur] = r.tree]
         /\ success' = SuccessAfterCopy(success, r.ok)
         /\ log' = Append(log, Event("materialize", "", r.ok))
    /\ pc' = "retention"
    /\ UNCHANGED <<maxVersions, now, runVars, vts, pathIdx, index, ret, connState,
                   raisedAt, rbState, histVars>>
    /\ UNCHANGED <<ddVars, pbVars, fmVars, cvVars>>

\* cleanup_old_backups(server_name), then "return success" (lines 612, 623)
CleanupOldBackups ==
    /\ runPc = "loop" /\ pc = "retention"
    /\ LET D == dirs[Cur]
           old == Range(OldBackups(D, maxVersions))
       IN \E failed \in SUBSET old :
          \E left \in [failed -> Content] :
            /\ \A d \in failed : left[d] \in Remnants(tree[Cur][d])
            /\ dirs' = [dirs EXCEPT ![Cur] = D \ (old \ failed)]
            /\ tree' = [tree EXCEPT ![Cur] =
                          [d \in Names |-> IF d \in old \ failed THEN Empty
                                           ELSE IF d \in failed THEN left[d]
                                           ELSE tree[Cur][d]]]
            /\ lastCleanup' = [ran |-> TRUE, server |-> Cur, n |-> maxVersions,
                               listed |-> BackupDirs(D), before |-> D,
                               after |-> D \ (old \ failed), failed |-> failed]
    /\ log' = Append(log, Event("retention", "", TRUE))
    /\ ret' = IF success THEN "true" ELSE "false"
    /\ pc' = "ret"
    /\ UNCHANGED <<maxVersions, now, runVars, vts, success, pathIdx, index,
                   connState, raisedAt, rbState, preDirs, preTree>>
    /\ UNCHANGED <<ddVars, pbVars, fmVars, cvVars>>

\* the "else:" branch: the version directory is removed (lines 613-623)
Rollback ==
    /\ runPc = "loop" /\ pc = "finish"
    /\ ~success
    /\ \E r \in RollbackResults(dirs[Cur], tree[Cur], VersionName(vts)) :
         /\ dirs' = [dirs EXCEPT ![Cur] = r.dirs]
         /\ tree' = [tree EXCEPT ![Cur] = r.tree]
         /\ rbState' = r.state
    /\ ret' = "false"
    /\ pc' = "ret"
    /\ UNCHANGED <<maxVersions, now, runVars, vts, success, pathIdx, index,
                   connState, raisedAt, log, histVars>>
    /\ UNCHANGED <<ddVars, pbVars, fmVars, cvVars>>

\* backup_server returns into run_backup's loop (lines 676-682), which goes
\* on with the next server or returns (lines 684-702)
ServerReturns ==
    /\ runPc = "loop" /\ pc = "ret"
    /\ LET res == Append(results, [server |-> Cur, ok |-> ret = "true"]) IN
         /\ results' = res
         /\ IF srv < Len(Servers)
            THEN /\ srv' = NextIndex(srv)
                 /\ UNCHANGED <<runPc, runRet>>
            ELSE /\ runPc' = "done"
                 /\ runRet' = IF RunResult(res, Len(Servers)) THEN "true" ELSE "false"
                 /\ UNCHANGED srv
    /\ pc' = "idle"
    /\ UNCHANGED <<maxVersions, now, fsVars, runs, vts, success, pathIdx, index,
                   ret, connState, raisedAt, rbState, log, histVars>>
    /\ UNCHANGED <<ddVars, pbVars, fmVars, cvVars>>

Next ==
    \/ RunBackup
    \/ BeginServer
    \/ ReserveVersion
    \/ Construct
    \/ Connect
    \/ DownloadDirectory
    \/ LoopRaise
    \/ Disconnect
    \/ Materialize
    \/ CleanupOldBackups
    \/ Rollback
    \/ ServerReturns

Spec == Init /\ [][Next]_vars

TypeOK ==
    /\ maxVersions \in 0..MaxKeep
    /\ now \in 1..MaxTime
    /\ \A s \in ServerSet : dirs[s] \subseteq Names
    /\ pc \in {"idle", "mkver", "ctor", "connect", "paths", "finish",
               "retention", "ret"}
    /\ runPc \in {"idle", "loop", "done", "aborted"}

\* ======================================================== the claims
Ver == VersionName(vts)
\* backup_server is at its "return"
Returning == runPc = "loop" /\ pc = "ret"
\* backup_server is running
InCampaign == runPc = "loop" /\ pc # "idle"
Calls(e) == SelectSeq(log, LAMBDA x : x.ev = e)
Downloads == Calls("download")
DownloadPaths == [i \in 1..Len(Downloads) |-> Downloads[i].path]
PathFailed == \E i \in 1..Len(Downloads) : ~Downloads[i].ok
\* download_directory was called for every configured path and returned True
AllPathsOk ==
    /\ DownloadPaths = RemotePaths(Cur)
    /\ \A i \in 1..Len(Downloads) : Downloads[i].ok
Min(a, b) == IF a < b THEN a ELSE b

\* C1 (as claimed): a campaign that connected and had a failing path leaves,
\* when backup_server returns, no version directory of its timestamp.
C1_FailedPathLeavesNoVersionDir ==
    (Returning /\ connState = "ok" /\ PathFailed) => Ver \notin dirs[Cur]

\* C1 (amended): the same, unless the rmtree of the rollback itself raised;
\* that exception is swallowed and the directory stays.
C1_FailedPathRollsBackUnlessRmtreeFails ==
    (Returning /\ connState = "ok" /\ PathFailed)
        => /\ ret = "false"
           /\ rbState # "none"
           /\ rbState # "failed" => Ver \notin dirs[Cur]

C1_Witness ==
    /\ Returning /\ connState = "ok" /\ PathFailed
    /\ rbState = "removed"
    /\ Ver \notin dirs[Cur]

\* C2: when connect() fails, backup_server returns False and the version
\* directory it reserved is gone when it returns.
C2_ConnectFailureRemovesVersionDir ==
    (Returning /\ connState = "failed")
        => (ret = "false" /\ Ver \notin dirs[Cur])

\* C3: after a cleanup_old_backups pass with max_backup_versions = n in which
\* every deletion succeeded, min(n, versions before) timestamped directories
\* remain, and they are the most recent ones.
C3_RetentionKeepsMinOfNMostRecent ==
    (lastCleanup.ran /\ lastCleanup.failed = {})
        => LET vb == lastCleanup.before \cap VersionNames
               va == lastCleanup.after \cap VersionNames
           IN /\ Cardinality(va) = Min(lastCleanup.n, Cardinality(vb))
              /\ va \subseteq vb
              /\ \A k \in va : \A d \in vb \ va : d.ts < k.ts

\* C4: cleanup_old_backups lists, counts and deletes timestamp-named
\* directories only: never `current`, never the hash_index directory.
C4_RetentionEnumeratesOnlyVersions ==
    lastCleanup.ran
        => /\ Range(lastCleanup.listed) \subseteq VersionNames
           /\ (lastCleanup.before \ lastCleanup.after) \subseteq VersionNames

\* the campaign has put no file into its version directory: what the
\* directory holds, if it exists, it held when the campaign started
WroteNothingToVer ==
    Ver \in dirs[Cur] => \A f \in Files : tree[Cur][Ver][f] \in {0, preTree[Ver][f]}

\* C5 (as claimed): copy_backup_to_version is called only after connect()
\* succeeded and every path's download_directory returned True, and a
\* populated version directory of the campaign's timestamp exists at the
\* return only if all paths succeeded.
C5_PopulatedVersionOnlyAfterAllPaths ==
    /\ (InCampaign /\ Calls("materialize") # <<>>) => (connState = "ok" /\ AllPathsOk)
    /\ (Returning /\ Ver \in dirs[Cur] /\ tree[Cur][Ver] # Empty)
          => (connState = "ok" /\ AllPathsOk)

\* C5 (amended): the call condition as claimed; and a campaign in which not
\* all paths succeeded has itself put nothing into its version directory (a
\* directory of the same timestamp populated by an earlier campaign may
\* still be there).
C5_MaterializeOnlyAfterAllPaths ==
    /\ (InCampaign /\ Calls("materialize") # <<>>) => (connState = "ok" /\ AllPathsOk)
    /\ (Returning /\ ~(connState = "ok" /\ AllPathsOk)) => WroteNothingToVer

C5_Witness ==
    /\ Returning /\ connState = "ok" /\ AllPathsOk
    /\ Calls("materialize") # <<>>
    /\ Ver \in dirs[Cur] /\ tree[Cur][Ver] # Empty

\* C6: a successful campaign runs retention exactly once, after the
\* materialization attempt; a failed campaign runs neither, and the version
\* directories that earlier campaigns populated are there, with their
\* content, as before.
C6_FailedCampaignKeepsEarlierVersions ==
    Returning =>
       /\ ret = "true" =>
            /\ Len(Calls("retention")) = 1
            /\ Len(Calls("materialize")) = 1
            /\ log[Len(log)].ev = "retention"
            /\ log[Len(log) - 1].ev = "materialize"
       /\ ret = "false" =>
            /\ Calls("retention") = <<>>
            /\ Calls("materialize") = <<>>
            /\ \A d \in preDirs :
                  preTree[d] # Empty
                     => (d \in dirs[Cur] /\ tree[Cur][d] = preTree[d])

\* C7: when every path succeeded and the copy of `current` into the version
\* directory fails, backup_server still runs retention and returns True.
C7_CopyFailureKeepsSuccess ==
    (Returning /\ \E i \in 1..Len(log) : log[i].ev = "materialize" /\ ~log[i].ok)
        => /\ AllPathsOk
           /\ ret = "true"
           /\ log[Len(log)].ev = "retention"

C7_Witness ==
    /\ Returning
    /\ \E i \in 1..Len(log) : log[i].ev = "materialize" /\ ~log[i].ok
    /\ ret = "true"

\* C8: once connected, download_directory runs for every configured path in
\* configuration order, also after a failure, and if nothing raises in the
\* loop and the disconnect after it (lines 574-591) backup_server returns
\* True iff every call returned True.
C8_AllPathsInOrderAndConjunction ==
    /\ (runPc = "loop" /\ pc = "paths")
          => DownloadPaths = SubSeq(RemotePaths(Cur), 1, pathIdx - 1)
    /\ (Returning /\ connState = "ok" /\ raisedAt = "none")
          => /\ DownloadPaths = RemotePaths(Cur)
             /\ ret = "true" <=> \A i \in 1..Len(Downloads) : Downloads[i].ok

C8_Witness ==
    /\ Returning /\ connState = "ok" /\ raisedAt = "none"
    /\ Len(Downloads) = 2
    /\ ~Downloads[1].ok /\ Downloads[2].ok
    /\ ret = "false"

\* C9: run_backup calls backup_server once per configured server, in
\* configuration order, whatever the earlier campaigns returned, and returns
\* True iff every campaign returned True.
C9_EveryServerInOrderAndConjunction ==
    /\ runPc \in {"loop", "done"}
          => \A i \in 1..Len(results) : results[i].server = Servers[i]
    /\ runPc = "loop" => Len(results) = srv - 1
    /\ runPc = "done"
          => /\ Len(results) = Len(Servers)
             /\ runRet = "true" <=> \A i \in 1..Len(results) : results[i].ok

C9_Witness ==
    /\ runPc = "done"
    /\ Len(results) = Len(Servers)
    /\ ~results[1].ok /\ results[2].ok
    /\ runRet = "false"

\* C10: an exception raised at any step of a campaign is caught inside
\* backup_server: it returns False with the version directory rolled back,
\* and run_backup goes on with the next server.
C10_EveryExceptionCaughtInCampaign ==
    raisedAt # "none"
        => /\ runPc # "aborted"
           /\ Returning => (ret = "false" /\ Ver \notin dirs[Cur])

\* ================================================================
\* ProgressBar
\* ================================================================
CampaignIdle == UNCHANGED campaignVars

\* (mutant: the byte counter is set, not added to)
AccumulateLast(total, size) == size
\* update: "if file_size > 0: self.transferred_size += file_size"
Accumulate(total, size) == IF size > 0 THEN total + size ELSE total

\* (mutant: no throttle)
RendersAlways(clock, last) == TRUE
\* update: "if now - self.last_update < 0.1: return", else it renders
Renders(clock, last) == ~(clock - last < Throttle)

\* ProgressBar(total, ...)
PBConstruct ==
    /\ pbState = "none"
    /\ pbState' = "open"
    /\ pbStartTime' = pbClock
    /\ pbLastUpdate' = 0
    /\ pbCurrent' = 0
    /\ pbTransferred' = 0
    /\ UNCHANGED <<pbClock, pbCalls, pbSummary>>
    /\ UNCHANGED <<ddVars, fmVars, cvVars>> /\ CampaignIdle

\* the wall clock advances
PBTick ==
    /\ pbClock < Throttle + MaxClock
    /\ pbClock' = pbClock + 1
    /\ UNCHANGED <<pbState, pbStartTime, pbLastUpdate, pbCurrent, pbTransferred,
                   pbCalls, pbSummary>>
    /\ UNCHANGED <<ddVars, fmVars, cvVars>> /\ CampaignIdle

\* update(current, current_file, file_size): the callers pass a file count
\* and the size get_remote_file_size returned (never negative), or no size
PBUpdate ==
    /\ pbState # "none"
    /\ Len(pbCalls) < MaxUpdates
    /\ \E c \in 0..MaxCount, size \in 0..MaxSize :
         LET rendered == Renders(pbClock, pbLastUpdate) IN
         /\ pbCurrent' = c
         /\ pbTransferred' = Accumulate(pbTransferred, size)
         /\ pbLastUpdate' = IF rendered THEN pbClock ELSE pbLastUpdate
         /\ pbCalls' = Append(pbCalls, [current |-> c, size |-> size,
                                        rendered |-> rendered, clock |-> pbClock])
    /\ UNCHANGED <<pbState, pbClock, pbStartTime, pbSummary>>
    /\ UNCHANGED <<ddVars, fmVars, cvVars>> /\ CampaignIdle

\* finish(): prints the summary from the counters and changes none of them
PBFinish ==
    /\ pbState = "open"
    /\ pbState' = "finished"
    /\ pbSummary' = <<[current |-> pbCurrent, transferred |-> pbTransferred,
                       calls |-> pbCalls, clock |-> pbClock]>>
    /\ UNCHANGED <<pbClock, pbStartTime, pbLastUpdate, pbCurrent, pbTransferred,
                   pbCalls>>
    /\ UNCHANGED <<ddVars, fmVars, cvVars>> /\ CampaignIdle

PBNext == PBConstruct \/ PBTick \/ PBUpdate \/ PBFinish

PBInit == CampaignInit /\ maxVersions = 0 /\ DDOff /\ PBOff /\ FMOff /\ CVOff

SpecPB == PBInit /\ [][PBNext]_vars

PBTypeOK ==
    /\ pbState \in {"none", "open", "finished"}
    /\ pbClock \in Throttle..(Throttle + MaxClock)
    /\ pbStartTime \in 0..(Throttle + MaxClock)
    /\ pbLastUpdate \in 0..(Throttle + MaxClock)
    /\ pbCurrent \in 0..MaxCount
    /\ pbTransferred \in 0..(MaxUpdates * MaxSize)
    /\ Len(pbCalls) <= MaxUpdates
    /\ Len(pbSummary) <= 1

\* ----------------------------------------------------------------
\* C19
RECURSIVE SumSizes(_)
SumSizes(calls) ==
    IF calls = <<>> THEN 0 ELSE calls[Len(calls)].size + SumSizes(SubSeq(calls, 1, Len(calls) - 1))

LastCurrent(calls) == IF calls = <<>> THEN 0 ELSE calls[Len(calls)].current

\* C19: when finish() is called, transferred_size is the sum of the
\* file_size values of all update() calls since construction and current is
\* the value of the last call (0 if there was none), whether or not the
\* calls got past the 100 ms throttle; finish() leaves both as they are.
C19_CountersIgnoreThrottle ==
    pbState = "finished" =>
        /\ pbSummary[1].transferred = SumSizes(pbSummary[1].calls)
        /\ pbSummary[1].current = LastCurrent(pbSummary[1].calls)

\* finish() after two or more updates, one of them with bytes but suppressed
C19_Witness ==
    /\ pbState = "finished"
    /\ Len(pbSummary[1].calls) >= 2
    /\ \E i \in 1..Len(pbSummary[1].calls) :
         /\ ~pbSummary[1].calls[i].rendered
         /\ pbSummary[1].calls[i].size > 0
    /\ \E i \in 1..Len(pbSummary[1].calls) : pbSummary[1].calls[i].rendered
    /\ ~pbSummary[1].calls[Len(pbSummary[1].calls)].rendered

\* ================================================================
\* One server's sessions: IncrementalBackup(server_backup_dir), then
\* download_directory for each remote path, step by step
\* ================================================================
DDPathName == DDPaths[ddPath]
DDListed(p) == Range(DDFileList(p))

\* "if is_first_backup: ... else: ..."
SelectMode(idx) == IF IsFirstBackup(idx) THEN "full" ELSE "incremental"

\* (mutant: an included file goes to the front of the list)
ScanStepFront(work, f, include) == IF include THEN <<f>> \o work ELSE work
\* "if should_backup_file(...): files_to_backup.append(file_path)"
ScanStep(work, f, include) == IF include THEN Append(work, f) ELSE work

\* (mutant: a failed copy ends the loop)
AfterAttemptAbort(pos, ok) == IF ok THEN pos + 1 ELSE Len(ddWork) + 1
\* the per-file loop: "except Exception ... continue" goes on to the next file
AfterAttempt(pos, ok) == pos + 1

\* the digests of path p are about to be read
ReadingBegins(p) ==
    [ddChanged EXCEPT ![p] = [last |-> FALSE, prev |-> ddChanged[p].last]]

\* the variables of one download_directory call, as a call leaves them
DDCallReset ==
    /\ ddMode' = "none"
    /\ ddStart' = DDEmpty
    /\ ddList' = <<>>
    /\ ddEnumOk' = TRUE
    /\ ddPos' = 1
    /\ ddObs' = DDEmpty
    /\ ddWork' = <<>>
    /\ ddAttempts' = <<>>
    /\ ddSaved' = 0
    /\ ddRet' = "none"
    /\ ddLastCall' = <<>>

\* IncrementalBackup.__init__: load_hash_index reads the index file, or
\* returns {} when json.load raises
DDConstruct ==
    /\ ddPc = "off"
    /\ ddSessions < MaxSessions
    /\ \E loaded \in {ddPersisted, DDEmpty} :
         /\ ddIndex' = loaded
         /\ ddLoadedSame' = (ddSessions >= 1 /\ loaded = ddIndex)
    /\ ddSessions' = ddSessions + 1
    /\ ddPath' = 1
    /\ ddPc' = "ready"
    /\ UNCHANGED <<ddRemote, ddChanges, ddPersisted, ddCur, ddMode, ddStart,
                   ddList, ddEnumOk, ddPos, ddObs, ddWork, ddAttempts, ddSaved,
                   ddRet, ddLastCall, ddPrev, ddChanged>>
    /\ UNCHANGED <<pbVars, fmVars, cvVars>> /\ CampaignIdle

\* download_directory, lines 396-402: os.makedirs, then the mode
DDBegin ==
    /\ ddPc = "ready"
    /\ ddStart' = ddIndex
    /\ \E ok \in BOOLEAN :
         IF ok
         THEN /\ ddMode' = SelectMode(ddIndex)
              /\ ddPc' = IF SelectMode(ddIndex) = "full" THEN "bulk" ELSE "list"
              /\ ddRet' = ddRet
         ELSE /\ ddMode' = "none"
              /\ ddPc' = "ret"
              /\ ddRet' = "false"
    /\ UNCHANGED <<ddRemote, ddChanges, ddIndex, ddPersisted, ddCur, ddSessions,
                   ddPath, ddList, ddEnumOk, ddPos, ddObs, ddWork, ddAttempts,
                   ddSaved, ddLastCall, ddPrev, ddChanged, ddLoadedSame>>
    /\ UNCHANGED <<pbVars, fmVars, cvVars>> /\ CampaignIdle

\* FULL, lines 404-431: scp_client.get(remote_path, recursive=True)
DDBulkCopy ==
    /\ ddPc = "bulk"
    /\ \E ok \in BOOLEAN, S \in SUBSET DDListed(DDPathName) :
         /\ ok => S = DDListed(DDPathName)
         /\ ddCur' = [f \in DDFiles |-> IF f \in S THEN ddRemote[f] ELSE ddCur[f]]
         /\ IF ok THEN ddPc' = "build" /\ ddRet' = ddRet
                  ELSE ddPc' = "ret" /\ ddRet' = "false"
    /\ UNCHANGED <<ddRemote, ddChanges, ddIndex, ddPersisted, ddSessions, ddPath,
                   ddMode, ddStart, ddList, ddEnumOk, ddPos, ddObs, ddWork,
                   ddAttempts, ddSaved, ddLastCall, ddPrev, ddChanged,
                   ddLoadedSame>>
    /\ UNCHANGED <<pbVars, fmVars, cvVars>> /\ CampaignIdle

\* FULL, line 433: build_hash_index_after_full_backup; get_remote_file_list
\* gives [] and get_remote_file_hash gives "" when the remote command fails
DDBuildIndex ==
    /\ ddPc = "build"
    /\ \E listed \in BOOLEAN, obs \in DDContent :
         LET l == IF listed THEN DDFileList(DDPathName) ELSE <<>> IN
         /\ \A f \in DDFiles : obs[f] # 0 => f \in Range(l) /\ obs[f] = ddRemote[f]
         /\ ddList' = l
         /\ ddEnumOk' = listed
         /\ ddObs' = obs
         /\ ddIndex' = BuildHashIndex(ddIndex, l, obs)
    /\ ddChanged' = ReadingBegins(DDPathName)
    /\ ddPc' = "save"
    /\ UNCHANGED <<ddRemote, ddChanges, ddPersisted, ddCur, ddSessions, ddPath,
                   ddMode, ddStart, ddPos, ddWork, ddAttempts, ddSaved, ddRet,
                   ddLastCall, ddPrev, ddLoadedSame>>
    /\ UNCHANGED <<pbVars, fmVars, cvVars>> /\ CampaignIdle

\* INCREMENTAL, line 440: get_remote_file_list, [] when it fails
DDList ==
    /\ ddPc = "list"
    /\ \E ok \in BOOLEAN :
         /\ ddList' = IF ok THEN DDFileList(DDPathName) ELSE <<>>
         /\ ddEnumOk' = ok
    /\ ddChanged' = ReadingBegins(DDPathName)
    /\ ddPos' = 1
    /\ ddPc' = "scan"
    /\ UNCHANGED <<ddRemote, ddChanges, ddIndex, ddPersisted, ddCur, ddSessions,
                   ddPath, ddMode, ddStart, ddObs, ddWork, ddAttempts, ddSaved,
                   ddRet, ddLastCall, ddPrev, ddLoadedSame>>
    /\ UNCHANGED <<pbVars, fmVars, cvVars>> /\ CampaignIdle

\* INCREMENTAL, lines 443-446: one pass of the scan loop
DDScanFile ==
    /\ ddPc = "scan"
    /\ ddPos <= Len(ddList)
    /\ LET f == ddList[ddPos] IN
       \E h \in {ddRemote[f], 0} :
         LET r == ShouldBackupFile(ddIndex, f, h) IN
         /\ ddIndex' = r.index
         /\ ddWork' = ScanStep(ddWork, f, r.include)
         /\ ddObs' = [ddObs EXCEPT ![f] = h]
         /\ ddLastCall' = <<[file |-> f, digest |-> h, before |-> ddIndex,
                             after |-> r.index, include |-> r.include]>>
    /\ ddPos' = ddPos + 1
    /\ UNCHANGED <<ddRemote, ddChanges, ddPersisted, ddCur, ddSessions, ddPath,
                   ddPc, ddMode, ddStart, ddList, ddEnumOk, ddAttempts, ddSaved,
                   ddRet, ddPrev, ddChanged, ddLoadedSame>>
    /\ UNCHANGED <<pbVars, fmVars, cvVars>> /\ CampaignIdle

\* INCREMENTAL, lines 448-459: "if backup_files == 0: ... return True"
DDScanDone ==
    /\ ddPc = "scan"
    /\ ddPos > Len(ddList)
    /\ IF ddWork = <<>>
       THEN ddPc' = "ret" /\ ddRet' = "true"
       ELSE ddPc' = "copy" /\ ddRet' = ddRet
    /\ ddPos' = 1
    /\ UNCHANGED <<ddRemote, ddChanges, ddIndex, ddPersisted, ddCur, ddSessions,
                   ddPath, ddMode, ddStart, ddList, ddEnumOk, ddObs, ddWork,
                   ddAttempts, ddSaved, ddLastCall, ddPrev, ddChanged,
                   ddLoadedSame>>
    /\ UNCHANGED <<pbVars, fmVars, cvVars>> /\ CampaignIdle

\* INCREMENTAL, lines 467-491: one pass of the copy loop; os.makedirs or
\* scp_client.get may raise into the loop's own except
DDCopyFile ==
    /\ ddPc = "copy"
    /\ ddPos <= Len(ddWork)
    /\ LET f == ddWork[ddPos] IN
       \E ok \in BOOLEAN :
         /\ ddCur' = IF ok THEN [ddCur EXCEPT ![f] = ddRemote[f]] ELSE ddCur
         /\ ddAttempts' = Append(ddAttempts, [file |-> f, ok |-> ok])
         /\ ddPos' = AfterAttempt(ddPos, ok)
    /\ UNCHANGED <<ddRemote, ddChanges, ddIndex, ddPersisted, ddSessions, ddPath,
                   ddPc, ddMode, ddStart, ddList, ddEnumOk, ddObs, ddWork,
                   ddSaved, ddRet, ddLastCall, ddPrev, ddChanged,
                   ddLoadedSame>>
    /\ UNCHANGED <<pbVars, fmVars, cvVars>> /\ CampaignIdle

\* INCREMENTAL, lines 493-497: the loop is over
DDCopyDone ==
    /\ ddPc = "copy"
    /\ ddPos > Len(ddWork)
    /\ ddPc' = "save"
    /\ UNCHANGED <<ddRemote, ddChanges, ddIndex, ddPersisted, ddCur, ddSessions,
                   ddPath, ddMode, ddStart, ddList, ddEnumOk, ddPos, ddObs,
                   ddWork, ddAttempts, ddSaved, ddRet, ddLastCall, ddPrev,
                   ddChanged, ddLoadedSame>>
    /\ UNCHANGED <<pbVars, fmVars, cvVars>> /\ CampaignIdle

\* lines 500-501: save_hash_index (its own except only prints), return True
DDSave ==
    /\ ddPc = "save"
    /\ ddPersisted' \in SaveOutcomes(ddIndex, ddPersisted)
    /\ ddSaved' = ddSaved + 1
    /\ ddRet' = "true"
    /\ ddPc' = "ret"
    /\ UNCHANGED <<ddRemote, ddChanges, ddIndex, ddCur, ddSessions, ddPath,
                   ddMode, ddStart, ddList, ddEnumOk, ddPos, ddObs, ddWork,
                   ddAttempts, ddLastCall, ddPrev, ddChanged, ddLoadedSame>>
    /\ UNCHANGED <<pbVars, fmVars, cvVars>> /\ CampaignIdle

\* the call is over: backup_server goes on to the next remote path, or the
\* session ends after the last one
DDReturn ==
    /\ ddPc = "ret"
    /\ ddPrev' = [ddPrev EXCEPT ![DDPathName] =
                    [mode |-> ddMode, ret |-> ddRet,
                     clean |-> /\ ddRet = "true"
                               /\ ddEnumOk
                               /\ \A f \in DDListed(DDPathName) : ddObs[f] # 0]]
    /\ IF ddPath < Len(DDPaths)
       THEN ddPath' = ddPath + 1 /\ ddPc' = "ready"
       ELSE ddPath' = 1 /\ ddPc' = "off"
    /\ DDCallReset
    /\ UNCHANGED <<ddRemote, ddChanges, ddIndex, ddPersisted, ddCur, ddSessions,
                   ddChanged, ddLoadedSame>>
    /\ UNCHANGED <<pbVars, fmVars, cvVars>> /\ CampaignIdle

\* a remote file gets new content
DDRemoteChange ==
    /\ ddChanges < MaxChanges
    /\ \E f \in DDFiles : \E d \in (1..MaxContents) \ {ddRemote[f]} :
         /\ ddRemote' = [ddRemote EXCEPT ![f] = d]
         /\ ddChanged' = [p \in DDPathSet |->
                            IF f \in DDListed(p) THEN [last |-> TRUE, prev |-> TRUE]
                            ELSE ddChanged[p]]
    /\ ddChanges' = ddChanges + 1
    /\ UNCHANGED <<ddIndex, ddPersisted, ddCur, ddSessions, ddPc, ddPath, ddMode,
                   ddStart, ddList, ddEnumOk, ddPos, ddObs, ddWork, ddAttempts,
                   ddSaved, ddRet, ddLastCall, ddPrev, ddLoadedSame>>
    /\ UNCHANGED <<pbVars, fmVars, cvVars>> /\ CampaignIdle

DDNext ==
    \/ DDConstruct \/ DDBegin \/ DDBulkCopy \/ DDBuildIndex \/ DDList
    \/ DDScanFile \/ DDScanDone \/ DDCopyFile \/ DDCopyDone \/ DDSave
    \/ DDReturn \/ DDRemoteChange

DDInit == CampaignInit /\ maxVersions = 0 /\ DDOff /\ PBOff /\ FMOff /\ CVOff

SpecDD == DDInit /\ [][DDNext]_vars

DDTypeOK ==
    /\ ddRemote \in [DDFiles -> 1..MaxContents]
    /\ ddChanges \in 0..MaxChanges
    /\ ddIndex \in DDContent /\ ddPersisted \in DDContent /\ ddCur \in DDContent
    /\ ddStart \in DDContent /\ ddObs \in DDContent
    /\ ddSessions \in 0..MaxSessions
    /\ ddPc \in {"off", "ready", "bulk", "build", "list", "scan", "copy", "save", "ret"}
    /\ ddPath \in 1..Len(DDPaths)
    /\ ddMode \in {"none", "full", "incremental"}
    /\ ddRet \in {"none", "true", "false"}
    /\ ddSaved \in 0..1
    /\ ddPos \in 1..(Cardinality(DDFiles) + 1)
    /\ Len(ddLastCall) <= 1
    /\ Range(ddList) \subseteq DDFiles /\ Range(ddWork) \subseteq DDFiles

\* ----------------------------------------------------------------
\* the call has passed the mode selection of lines 400-402
PastSelection == ddPc \in {"bulk", "build", "list", "scan", "copy", "save"}
\* the INCREMENTAL scan loop of this call is over
ScanOver == ddMode = "incremental" /\ ddPc \in {"copy", "save", "ret"}
HasEntry(idx) == \E f \in DDFiles : idx[f] # 0

\* C11: a call that reaches the mode selection takes the FULL branch iff
\* hash_index has no entry when the call starts and the INCREMENTAL branch
\* otherwise; is_first_backup() is true iff the index has no entry; so a
\* later path of the same session runs INCREMENTAL once an earlier one has
\* put an entry into the index.
C11_ModeFollowsIndexAtStart ==
    /\ PastSelection => ddMode \in {"full", "incremental"}
    /\ ddMode = "none" => ddPc \in {"off", "ready", "ret"}
    /\ ddMode = "full" => ~HasEntry(ddStart)
    /\ ddMode = "incremental" => HasEntry(ddStart)
    /\ IsFirstBackup(ddIndex) <=> ~HasEntry(ddIndex)

\* first session, index file empty: the second path runs INCREMENTAL
C11_Witness ==
    /\ ddSessions = 1
    /\ ddPath = 2
    /\ ddMode = "incremental"
    /\ ddPrev["p1"].mode = "full"

\* C12: should_backup_file(path) with live digest d: d empty -> True, index
\* unchanged; d non-empty and no entry or another digest -> index[path] = d,
\* no other entry changed, True; d = index[path] -> False, index unchanged;
\* a second call with the same non-empty digest returns False.
C12_ShouldBackupFileCases ==
    ddLastCall # <<>> =>
        LET c == ddLastCall[1] IN
        /\ c.digest = 0 => c.include /\ c.after = c.before
        /\ (c.digest # 0 /\ c.before[c.file] # c.digest) =>
              c.include /\ c.after = [c.before EXCEPT ![c.file] = c.digest]
        /\ (c.digest # 0 /\ c.before[c.file] = c.digest) =>
              ~c.include /\ c.after = c.before
        /\ c.digest # 0 =>
              LET again == ShouldBackupFile(c.after, c.file, c.digest) IN
              ~again.include /\ again.index = c.after

\* a call that finds another digest recorded for the file
C12_Witness ==
    /\ ddLastCall # <<>>
    /\ ddLastCall[1].digest # 0
    /\ ddLastCall[1].before[ddLastCall[1].file] \notin {0, ddLastCall[1].digest}
    /\ ddLastCall[1].include

\* the files of a list whose digest was unobtainable or differs from idx
RECURSIVE ChangedIn(_, _, _)
ChangedIn(list, obs, idx) ==
    IF list = <<>> THEN <<>>
    ELSE (IF obs[Head(list)] = 0 \/ obs[Head(list)] # idx[Head(list)]
          THEN <<Head(list)>> ELSE <<>>) \o ChangedIn(Tail(list), obs, idx)

Scanned == IF ddPc = "scan" THEN SubSeq(ddList, 1, ddPos - 1) ELSE ddList
Skipped == {i \in 1..Len(Scanned) : Scanned[i] \notin Range(ddWork)}

\* C13: in INCREMENTAL mode files_to_backup is the enumerated files whose
\* live digest is empty or differs from the digest the index held, in
\* enumeration order (included + skipped = enumerated); the scan changes the
\* index only at included files with a non-empty digest; with an empty list
\* the call returns True and no copy is attempted.
C13_WorkListIsChangedFiles ==
    ddMode = "incremental" /\ ddPc # "list" =>
        /\ ddWork = ChangedIn(Scanned, ddObs, ddStart)
        /\ Len(ddWork) + Cardinality(Skipped) = Len(Scanned)
        /\ \A f \in DDFiles : ddIndex[f] # ddStart[f] =>
               f \in Range(ddWork) /\ ddObs[f] # 0 /\ ddIndex[f] = ddObs[f]
        /\ (ScanOver /\ ddWork = <<>>) =>
               ddPc = "ret" /\ ddRet = "true" /\ ddAttempts = <<>>

\* two files enumerated, one included and recorded, one skipped
C13_Witness ==
    /\ ScanOver
    /\ Len(ddList) = 2
    /\ Len(ddWork) = 1
    /\ ddIndex[ddWork[1]] # ddStart[ddWork[1]]
    /\ ddStart[ddWork[1]] # 0

\* the index holds digest d for f
Recorded(idx, f, d) == d # 0 /\ idx[f] = d

\* C14 as stated, for the INCREMENTAL scan: every file put on the work list
\* has the digest the session observed for it in the index.
C14_IncludedFilesAreRecorded ==
    ddMode = "incremental" =>
        \A i \in 1..Len(ddWork) : Recorded(ddIndex, ddWork[i], ddObs[ddWork[i]])

\* C14: every file for which the call obtained a non-empty digest, in the
\* scan or in the index build, has that digest in the index from then on.
C14_ObservedDigestsAreRecorded ==
    \A f \in DDFiles : ddObs[f] # 0 => ddIndex[f] = ddObs[f]

\* a work list of two: one file recorded, one included without a digest
C14_Witness ==
    /\ ScanOver
    /\ Len(ddWork) = 2
    /\ \E i, j \in 1..2 :
         /\ ddObs[ddWork[i]] # 0 /\ ddIndex[ddWork[i]] = ddObs[ddWork[i]]
         /\ ddIndex[ddWork[i]] # ddStart[ddWork[i]]
         /\ ddObs[ddWork[j]] = 0

\* this call follows a call for the same path in the session before, which
\* returned True in the given modes; the index that session ended with was
\* loaded; no remote file of the path changed since that call began to read digests
SecondRun(modes) ==
    /\ ScanOver
    /\ ddSessions >= 2
    /\ ddLoadedSame
    /\ ddPrev[DDPathName].mode \in modes
    /\ ddPrev[DDPathName].ret = "true"
    /\ ~ddChanged[DDPathName].prev

\* C15 as stated: the second of two consecutive incremental runs over a path
\* with no remote change in between has an empty work list and copies nothing.
C15_SecondRunIncludesNothing ==
    SecondRun({"incremental"}) => ddWork = <<>> /\ ddAttempts = <<>>

\* C15: ... provided the first run enumerated the path and obtained the
\* digest of every file, and the second obtained every digest it asked for.
C15_SecondRunIncludesNothingIfDigestsRead ==
    (/\ SecondRun({"incremental"})
     /\ ddPrev[DDPathName].clean
     /\ \A i \in 1..Len(ddList) : ddObs[ddList[i]] # 0)
    => ddWork = <<>> /\ ddAttempts = <<>>

\* the second run has enumerated two files and skipped both
C15_Witness ==
    /\ SecondRun({"incremental"})
    /\ ddPrev[DDPathName].clean
    /\ Len(ddList) = 2
    /\ \A i \in 1..Len(ddList) : ddObs[ddList[i]] # 0
    /\ ddPc = "ret"
    /\ ddWork = <<>>

\* C16: after a call that returned True for a tree with at least one file and
\* wrote the index file, the index is not empty (so the next session finds
\* is_first_backup() False and runs INCREMENTAL).
C16_PersistedIndexNonEmpty ==
    (/\ ddPc = "ret"
     /\ ddRet = "true"
     /\ DDListed(DDPathName) # {}
     /\ ddSaved >= 1
     /\ ddPersisted = ddIndex)
    => HasEntry(ddIndex)

\* C17: every download_directory call that returns True has called
\* save_hash_index.
C17_SavedBeforeReturn ==
    (ddPc = "ret" /\ ddRet = "true") => ddSaved >= 1

\* C18: a call whose enumeration of the remote files failed returns False.
C18_EnumerationFailureFailsPath ==
    (ddPc = "ret" /\ ddMode = "incremental" /\ ~ddEnumOk) => ddRet = "false"

\* C20: in the per-file loop every file of files_to_backup gets one attempt,
\* in list order, whatever the outcome of the attempts before it, and the
\* call returns True whatever the outcomes were.
C20_EveryFileAttemptedOnce ==
    ddMode = "incremental" =>
        /\ Len(ddAttempts) <= Len(ddWork)
        /\ \A i \in 1..Len(ddAttempts) : ddAttempts[i].file = ddWork[i]
        /\ ddPc = "copy" => Len(ddAttempts) = ddPos - 1
        /\ ddPc \in {"save", "ret"} => Len(ddAttempts) = Len(ddWork)
        /\ ddPc = "ret" => ddRet = "true"

\* both copies of a work list of two failed and the call returned True
C20_Witness ==
    /\ ddMode = "incremental"
    /\ ddPc = "ret"
    /\ Len(ddWork) = 2
    /\ \A i \in 1..Len(ddAttempts) : ~ddAttempts[i].ok
    /\ ddRet = "true"

\* ================================================================
\* retention and the snapshot just made (campaign machine)
\* ================================================================
Materialized == \E i \in 1..Len(log) : log[i].ev = "materialize" /\ log[i].ok

\* C22: when a campaign with max_backup_versions >= 1 has copied `current`
\* into its version directory and backup_server returns True, that version
\* directory exists: the retention pass has not removed it.
C22_RetentionKeepsNewSnapshot ==
    (Returning /\ ret = "true" /\ maxVersions >= 1 /\ Materialized)
        => Ver \in dirs[Cur]

\* ================================================================
\* the index and the copies under `current` (session machine)
\* ================================================================
\* later incremental runs skip f: the index file holds f's present digest
SkippedLater(f) == ddPersisted[f] # 0 /\ ddPersisted[f] = ddRemote[f]

\* C21, for the files of an INCREMENTAL call's work list: when the call
\* returns and the index file holds the digest the remote file has now, the
\* copy under `current` has that content.
C21_SkippedFilesWereCopied ==
    (ddMode = "incremental" /\ ddPc = "ret") =>
        \A i \in 1..Len(ddAttempts) :
            SkippedLater(ddAttempts[i].file) =>
                ddCur[ddAttempts[i].file] = ddRemote[ddAttempts[i].file]

\* ================================================================
\* the render throttle (ProgressBar machine)
\* ================================================================
RenderedCalls == {i \in 1..Len(pbCalls) : pbCalls[i].rendered}

\* C25: two renders of update() are at least 100 ms apart, the first
\* update() after construction renders, and finish() prints its summary
\* however recently update() rendered.
C25_RendersAreThrottled ==
    /\ \A i, j \in RenderedCalls :
          i < j => pbCalls[j].clock - pbCalls[i].clock >= Throttle
    /\ pbCalls # <<>> => pbCalls[1].rendered
    /\ pbState = "finished" => Len(pbSummary) = 1

\* two renders exactly 100 ms apart, and finish() at the time of the second
C25_Witness ==
    /\ pbState = "finished"
    /\ Len(pbSummary[1].calls) = 2
    /\ pbSummary[1].calls[1].rendered /\ pbSummary[1].calls[2].rendered
    /\ pbSummary[1].calls[2].clock - pbSummary[1].calls[1].clock = Throttle
    /\ pbSummary[1].clock = pbSummary[1].calls[2].clock

\* ================================================================
\* one SSHBackup: download_directory and its monitor threads
\* ================================================================
FMIdle == UNCHANGED <<ddVars, pbVars, cvVars>> /\ CampaignIdle

FMCallIds == 1..MaxCalls

\* is_first_backup() on entry (line 402): the first call modelled finds the
\* index empty; a later call finds it empty again when the earlier call
\* failed or recorded no digest, and non-empty otherwise
FMModes(k) == IF k = 1 THEN {"full"} ELSE {"full", "incremental"}

\* download_directory is entered (lines 394-402)
FMCall ==
    /\ ssh.pc = "idle"
    /\ ssh.calls < MaxCalls
    /\ \E mode \in FMModes(ssh.calls + 1) :
        ssh' = [ssh EXCEPT !.calls = @ + 1, !.mode = mode,
                           !.pc = IF mode = "full" THEN "count" ELSE "worklist"]
    /\ FMIdle

\* lines 409-411: self.total_files = get_remote_file_count(remote_path);
\* the bar and the thread are made only when it is positive
FMCount ==
    /\ ssh.pc = "count"
    /\ \E t \in 0..MaxTotal :
        ssh' = [ssh EXCEPT !.total_files = t,
                           !.pc = IF t > 0 THEN "newbar" ELSE "copy"]
    /\ FMIdle

\* line 413: self.progress_bar = ProgressBar(self.total_files, ...)
FMNewBar ==
    /\ ssh.pc = "newbar"
    /\ ssh' = [ssh EXCEPT !.progress_bar = ssh.calls,
                          !.bars[ssh.calls] = [total |-> ssh.total_files,
                                               current |-> 0],
                          !.pc = "setflag"]
    /\ FMIdle

\* line 414: self.is_downloading = True
FMSetFlag ==
    /\ ssh.pc = "setflag"
    /\ ssh' = [ssh EXCEPT !.is_downloading = TRUE, !.pc = "start"]
    /\ FMIdle

\* lines 417-419: the monitor thread of this call is created and started
FMStart ==
    /\ ssh.pc = "start"
    /\ ssh' = [ssh EXCEPT !.threads[ssh.calls] = [pc |-> "test", n |-> 0],
                          !.pc = "copy"]
    /\ FMIdle

\* line 422, while scp_client.get runs: one more file under local_path
FMCopyFile ==
    /\ ssh.pc = "copy"
    /\ ssh.local[ssh.calls] < MaxLocal
    /\ ssh' = [ssh EXCEPT !.local[ssh.calls] = @ + 1]
    /\ FMIdle

\* line 422: scp_client.get returns, or raises into the handler of line 503
FMCopyEnds ==
    /\ ssh.pc = "copy"
    /\ \E ok \in BOOLEAN :
        ssh' = [ssh EXCEPT !.pc = IF ok THEN "clear" ELSE "xclear"]
    /\ FMIdle

\* line 425 after a normal return, line 505 in the handler:
\* self.is_downloading = False
FMClear ==
    /\ ssh.pc \in {"clear", "xclear"}
    /\ ssh' = [ssh EXCEPT !.is_downloading = FALSE,
                          !.cleared[ssh.calls] = TRUE,
                          !.pc = IF ssh.pc = "clear" THEN "join" ELSE "xjoin"]
    /\ FMIdle

\* lines 426-427 and 506-507: monitor_thread.join(timeout=1) returns when the
\* thread has ended or when the second has passed, whichever is first; the
\* handler then returns False (line 510)
FMJoin ==
    /\ ssh.pc \in {"join", "xjoin"}
    /\ ssh' = IF ssh.pc = "join"
              THEN [ssh EXCEPT !.pc = "finish"]
              ELSE [ssh EXCEPT !.pc = "idle", !.mode = "none"]
    /\ FMIdle

\* lines 429-436: progress_bar.finish() changes no counter; the index is
\* built and the call returns
FMFinish ==
    /\ ssh.pc = "finish"
    /\ ssh' = [ssh EXCEPT !.pc = "idle", !.mode = "none"]
    /\ FMIdle

\* lines 440-464 of an INCREMENTAL call with a non-empty work list:
\* self.progress_bar = ProgressBar(backup_files, ...); self.copied_files = 0
FMWorkList ==
    /\ ssh.pc = "worklist"
    /\ \E w \in 1..MaxTotal :
        ssh' = [ssh EXCEPT !.bars[ssh.calls] = [total |-> w, current |-> 0],
                           !.progress_bar = ssh.calls,
                           !.copied_files = 0,
                           !.pc = "loop"]
    /\ FMIdle

\* lines 467-491, one file of the work list: copied or failed, copied_files
\* grows by one and is passed to self.progress_bar.update
FMLoopFile ==
    /\ ssh.pc = "loop"
    /\ ssh.copied_files < ssh.bars[ssh.calls].total
    /\ ssh' = [ssh EXCEPT !.copied_files = @ + 1,
                          !.bars[ssh.progress_bar].current = ssh.copied_files + 1]
    /\ FMIdle

\* lines 493-501: the work list is done, finish(), save, return
FMLoopDone ==
    /\ ssh.pc = "loop"
    /\ ssh.copied_files = ssh.bars[ssh.calls].total
    /\ ssh' = [ssh EXCEPT !.pc = "idle", !.mode = "none"]
    /\ FMIdle

\* ---- monitor_progress of call k (lines 383-392), one shared read a step
\* line 385: while self.is_downloading
PollTest(k) ==
    /\ ssh.threads[k].pc = "test"
    /\ ssh' = [ssh EXCEPT !.threads[k].pc =
                            IF ssh.is_downloading THEN "count" ELSE "done"]
    /\ FMIdle

\* line 387: current_files = self.get_local_file_count(local_path)
PollCount(k) ==
    /\ ssh.threads[k].pc = "count"
    /\ ssh' = [ssh EXCEPT !.threads[k] = [pc |-> "guard", n |-> ssh.local[k]]]
    /\ FMIdle

\* line 388: if self.progress_bar and current_files <= self.total_files
PollGuard(k) ==
    /\ ssh.threads[k].pc = "guard"
    /\ ssh' = [ssh EXCEPT !.threads[k].pc =
                            IF /\ ssh.progress_bar # 0
                               /\ ssh.threads[k].n <= ssh.total_files
                            THEN "update" ELSE "sleep"]
    /\ FMIdle

\* line 389: self.progress_bar.update(current_files), on the bar the
\* attribute names now
PollUpdate(k) ==
    /\ ssh.threads[k].pc = "update"
    /\ ssh' = [ssh EXCEPT !.bars[ssh.progress_bar].current = ssh.threads[k].n,
                          !.late[k] = IF ssh.cleared[k] THEN Min(@ + 1, 2) ELSE @,
                          !.threads[k].pc = "sleep"]
    /\ FMIdle

\* line 390: time.sleep(0.5)
PollSleep(k) ==
    /\ ssh.threads[k].pc = "sleep"
    /\ ssh' = [ssh EXCEPT !.threads[k].pc = "test"]
    /\ FMIdle

FMMain ==
    \/ FMCall \/ FMCount \/ FMNewBar \/ FMSetFlag \/ FMStart
    \/ FMCopyFile \/ FMCopyEnds \/ FMClear \/ FMJoin \/ FMFinish
    \/ FMWorkList \/ FMLoopFile \/ FMLoopDone

FMPoller(k) ==
    PollTest(k) \/ PollCount(k) \/ PollGuard(k) \/ PollUpdate(k) \/ PollSleep(k)

FMNext == FMMain \/ \E k \in FMCallIds : FMPoller(k)

FMInit == CampaignInit /\ maxVersions = 0 /\ DDOff /\ PBOff /\ FMOff /\ CVOff

SpecFM == FMInit /\ [][FMNext]_vars

FMTypeOK ==
    ssh \in [calls : 0..MaxCalls,
             mode : {"none", "full", "incremental"},
             pc : {"idle", "count", "newbar", "setflag", "start", "copy",
                   "clear", "xclear", "join", "xjoin", "finish", "worklist",
                   "loop"},
             is_downloading : BOOLEAN,
             total_files : 0..MaxTotal,
             copied_files : 0..MaxTotal,
             progress_bar : 0..MaxCalls,
             bars : [FMCallIds -> [total : 0..MaxTotal,
                                   current : 0..(MaxLocal + MaxTotal)]],
             local : [FMCallIds -> 0..MaxLocal],
             threads : [FMCallIds ->
                          [pc : {"none", "test", "count", "guard", "update",
                                 "sleep", "done"},
                           n : 0..MaxLocal]],
             cleared : [FMCallIds -> BOOLEAN],
             late : [FMCallIds -> 0..2]]

\* ----------------------------------------------------------------
\* C23: once is_downloading was cleared after a call's bulk copy, the
\* monitor thread started for that copy makes at most one more update of a
\* bar (and then ends).
C23_PollerStopsAfterClear ==
    \A k \in FMCallIds : ssh.late[k] <= 1

\* C24: the count a bar holds, the last one passed to its update(), is
\* never above the bar's total, so total - current is never negative.
C24_CountWithinTotal ==
    \A k \in FMCallIds : ssh.bars[k].current <= ssh.bars[k].total


\* ================================================================
\* copy_backup_to_version on its own
\* ================================================================
CVIdle == UNCHANGED <<ddVars, pbVars, fmVars>> /\ CampaignIdle

\* the server directories the function may be given: `current` exists, each
\* version directory exists or not, and an existing one holds any files
CVStores ==
    { [dirs |-> {CurrentName} \cup V, tree |-> T, target |-> v, shots |-> <<>>] :
        V \in SUBSET VersionNames,
        T \in [Names -> Content],
        v \in VersionNames }

CVWellFormed(c) ==
    \A d \in Names : d \notin c.dirs => c.tree[d] = Empty

\* copy_backup_to_version(current, target) (lines 625-638), with what the
\* target held before and holds after
CVMaterialize ==
    /\ Len(cv.shots) < MaxCopies
    /\ \E r \in CopyToVersion(cv.dirs, cv.tree, cv.target) :
        cv' = [cv EXCEPT !.dirs = r.dirs, !.tree = r.tree,
                         !.shots = Append(@, [ok |-> r.ok,
                                              src |-> cv.tree[CurrentName],
                                              had |-> cv.target \in cv.dirs,
                                              old |-> cv.tree[cv.target],
                                              made |-> cv.target \in r.dirs,
                                              new |-> r.tree[cv.target]])]
    /\ CVIdle

\* a later download into `current` (line 422 or 480): files are added or
\* overwritten, none is removed
CVDownload ==
    /\ Len(cv.shots) < MaxCopies
    /\ \E copied \in Content :
        /\ Overlay(cv.tree[CurrentName], copied) # cv.tree[CurrentName]
        /\ cv' = [cv EXCEPT !.tree[CurrentName] = Overlay(@, copied)]
    /\ CVIdle

CVNext == CVMaterialize \/ CVDownload

CVInit ==
    /\ CampaignInit /\ maxVersions = 0 /\ DDOff /\ PBOff /\ FMOff
    /\ cv \in CVStores
    /\ CVWellFormed(cv)

SpecCV == CVInit /\ [][CVNext]_vars

CVTypeOK ==
    /\ cv.dirs \subseteq Names
    /\ cv.tree \in [Names -> Content]
    /\ cv.target \in VersionNames
    /\ Len(cv.shots) <= MaxCopies
    /\ CVWellFormed(cv)

\* ----------------------------------------------------------------
\* C26: after a copy_backup_to_version that returned, the target exists and
\* holds exactly the files `current` held at the call, whatever the target
\* held before; two such calls from the same `current` leave the same content.
C26_SnapshotEqualsCurrent ==
    /\ \A i \in 1..Len(cv.shots) :
         cv.shots[i].ok => cv.shots[i].made /\ cv.shots[i].new = cv.shots[i].src
    /\ \A i, j \in 1..Len(cv.shots) :
         (cv.shots[i].ok /\ cv.shots[j].ok /\ cv.shots[i].src = cv.shots[j].src)
             => cv.shots[i].new = cv.shots[j].new

\* the target held a file that `current` lacks, was replaced, and was
\* materialized a second time from the same `current`
C26_Witness ==
    /\ Len(cv.shots) = 2
    /\ cv.shots[1].ok /\ cv.shots[2].ok
    /\ cv.shots[1].had
    /\ \E f \in Files : cv.shots[1].old[f] # 0 /\ cv.shots[1].src[f] = 0
    /\ cv.shots[2].src = cv.shots[1].src
    /\ cv.shots[2].old = cv.shots[1].new

====
